---- MODULE Spec2Model ----
(***************************************************************************)
(* The quiz routes of backend/routes/quiz.js over the Quiz collection.     *)
(*                                                                         *)
(* quiz.js holds two revisions of the router ("variant 1", lines 1-405,    *)
(* and "variant 2", lines 407-711).  A behaviour runs one of them: the     *)
(* variable  variant  is fixed by Init.                                    *)
(*                                                                         *)
(* A handler that awaits the store twice (findOne, then save or            *)
(* findOneAndUpdate) is two steps: <Op>Begin takes the request and reads    *)
(* the document into the request's own copy (snap), <Op>Finish runs the    *)
(* checks on that copy, writes and responds.  Requests of other callers    *)
(* may run between the two.  A handler that awaits once is one step.       *)
(*                                                                         *)
(* doc.save() of a loaded document writes the paths the handler modified   *)
(* and nothing else: an assigned field is set, an array push is appended   *)
(* to the stored array.  Quiz.findOneAndUpdate({code}, {$push}) appends to *)
(* the first stored document with that code.                               *)
(*                                                                         *)
(* The document holds every path the handlers write or read (createdBy,    *)
(* creatorName, startTime, answers, participant records, timeLimit); the   *)
(* schema revision in models/Quiz.js declares the paths of an earlier      *)
(* revision of the routes.  scores and answers are arrays of the schema,    *)
(* so a loaded document always has them.                                   *)
(*                                                                         *)
(* new Date() values are one token, Now.  create takes its code as an      *)
(* input: the code generator draws it at random, and a specification hands *)
(* create any of the codes the generator may return.                       *)
(***************************************************************************)
EXTENDS Integers, Sequences, FiniteSets, TLC

VARIABLES
    variant,    \* the revision of the router that is running: 1 or 2
    quizzes,    \* the Quiz collection, in insertion order; the index is _id
    inflight,   \* per request slot: the request between its two awaits
    resp        \* the response the last step sent, NoResp when it sent none

vars == <<variant, quizzes, inflight, resp>>

---------------------------------------------------------------------------
(* Bounds of the model *)

MaxQuizzes == 1
MaxParticipants == 2
MaxAnswers == 1
MaxScores == 1
MaxBoard == 3
MaxCreated == 2
MaxSubmits == 2

---------------------------------------------------------------------------
(* JavaScript values *)

Undefined == "undefined"

Falsy(x) == x \in {"", Undefined}

NoTime == "unset"
Now == "now"

DefaultTimeLimit == 30

\* x || d on a number, 0 standing for an absent or zero timeLimit
OrDefault(x, d) == IF x = 0 THEN d ELSE x

Range(s) == {s[i] : i \in 1..Len(s)}

---------------------------------------------------------------------------
(* Inputs the requests are drawn from *)

Users == {"u1", "u2"}
Usernames == {"", "Bob"}
Creator == "u1"
CreatorName == "Alice"
TheCode == "AB12CD"
UnknownCode == "ZZZZ99"
RequestCodes == {TheCode, UnknownCode}
\* two of the codes the generator may return
GeneratedCodes == {TheCode, "XY34ZW"}
Answers == {"A", "a"}

QMultiple ==
    [text |-> "Q1", type |-> "multiple", hasOptions |-> TRUE,
     options |-> <<"A", "B">>, correctAnswer |-> "A", timeLimit |-> 0]
QText ==
    [text |-> "Q2", type |-> "text", hasOptions |-> FALSE,
     options |-> <<>>, correctAnswer |-> "a", timeLimit |-> 20]
QNoText == [QText EXCEPT !.text = Undefined]
QOneOption == [QMultiple EXCEPT !.options = <<"A">>]

\* req.body.questions: absent, or an array of question objects
QuestionInputs ==
    { [present |-> FALSE, items |-> <<>>],
      [present |-> TRUE, items |-> <<>>],
      [present |-> TRUE, items |-> <<QMultiple>>],
      [present |-> TRUE, items |-> <<QMultiple, QText>>],
      [present |-> TRUE, items |-> <<QNoText>>],
      [present |-> TRUE, items |-> <<QOneOption>>] }

BoardScores == {50, 70, 80, 90}
BoardUsers == {"u1", "u2", "u3"}

---------------------------------------------------------------------------
(* The Quiz document and the store *)

InitialStatus == IF variant = 1 THEN "pending" ELSE "waiting"

\* questions.map(q => ({text, type, options: q.options || [], correctAnswer,
\* timeLimit: q.timeLimit || 30})) of create
StoredQuestion(q) ==
    [text |-> q.text,
     type |-> q.type,
     options |-> IF q.hasOptions THEN q.options ELSE <<>>,
     correctAnswer |-> q.correctAnswer,
     timeLimit |-> OrDefault(q.timeLimit, DefaultTimeLimit)]

StoredQuestions(items) == [i \in 1..Len(items) |-> StoredQuestion(items[i])]

\* new Quiz({...}) of create; scores and answers start as empty arrays
NewQuiz(code, title, category, items, createdBy, creatorName) ==
    [code |-> code,
     title |-> title,
     category |-> category,
     questions |-> StoredQuestions(items),
     createdBy |-> createdBy,
     creatorName |-> creatorName,
     status |-> InitialStatus,
     participants |-> <<>>,
     scores |-> <<>>,
     answers |-> <<>>,
     startTime |-> NoTime]

\* Quiz.findOne({code}): the _id of the first stored document with that code,
\* 0 when there is none
FindOne(code) ==
    IF \E i \in 1..Len(quizzes) : quizzes[i].code = code
    THEN CHOOSE i \in 1..Len(quizzes) :
            /\ quizzes[i].code = code
            /\ \A j \in 1..(i - 1) : quizzes[j].code # code
    ELSE 0

NoDoc == [code |-> Undefined]

\* what findOne hands the handler: the document's _id and a copy of it
Load(code) ==
    LET i == FindOne(code)
    IN  [id |-> i, doc |-> IF i = 0 THEN NoDoc ELSE quizzes[i]]

Idle == [op |-> "idle"]
\* two requests may be between their awaits at a time
Slots == {1, 2}

NoResp == [op |-> "none", http |-> 0]

\* a new request takes the lowest idle slot
FreeSlot(s) ==
    /\ inflight[s].op = "idle"
    /\ \A t \in 1..(s - 1) : inflight[t].op # "idle"

\* requests of kind op for document id that are between their two awaits
Pending(op, id) ==
    Cardinality({s \in Slots : inflight[s].op = op /\ inflight[s].snap.id = id})

Init ==
    /\ variant \in {1, 2}
    /\ quizzes = <<>>
    /\ inflight = [s \in Slots |-> Idle]
    /\ resp = NoResp

---------------------------------------------------------------------------
(* POST /create *)

\* the loop over questions of variant 2: the error of the first question that
\* fails a check, "" when every question passes
RECURSIVE QuestionError(_)
QuestionError(items) ==
    IF items = <<>> THEN ""
    ELSE LET q == Head(items)
         IN  IF Falsy(q.text) \/ Falsy(q.type) \/ Falsy(q.correctAnswer)
             THEN "Invalid question format"
             ELSE IF q.type = "multiple" /\ (~q.hasOptions \/ Len(q.options) < 2)
             THEN "Multiple choice questions must have at least 2 options"
             ELSE QuestionError(Tail(items))

\* the 400 of create, "" when the body passes validation
CreateError(title, category, questions, createdBy, creatorName) ==
    IF variant = 1
    THEN IF \/ Falsy(title) \/ Falsy(category) \/ ~questions.present
            \/ Falsy(createdBy) \/ Falsy(creatorName)
         THEN "Missing required fields"
         ELSE ""
    ELSE IF \/ Falsy(title) \/ Falsy(category) \/ ~questions.present
            \/ Len(questions.items) = 0
         THEN "Missing required fields"
         ELSE QuestionError(questions.items)

\* variant 1 takes createdBy and creatorName from the body; variant 2 stores
\* the body's userId as createdBy and no creatorName
Create(code, title, category, questions, userId, createdBy, creatorName) ==
    LET err == CreateError(title, category, questions, createdBy, creatorName)
    IN  /\ IF err # ""
           THEN /\ resp' = [op |-> "create", http |-> 400, error |-> err]
                /\ UNCHANGED quizzes
           ELSE /\ quizzes' = Append(quizzes,
                        IF variant = 1
                        THEN NewQuiz(code, title, category, questions.items,
                                     createdBy, creatorName)
                        ELSE NewQuiz(code, title, category, questions.items,
                                     userId, Undefined))
                /\ resp' = [op |-> "create", http |-> 201, code |-> code]
        /\ UNCHANGED <<variant, inflight>>

---------------------------------------------------------------------------
(* Views *)

\* a view that hands the stored question on as it is
Unsanitized(q) == q

\* quiz.questions.map(q => ({text, type, options, timeLimit})): the question
\* without its correctAnswer; variant 1 writes timeLimit as q.timeLimit || 30
Sanitize(q) ==
    [text |-> q.text,
     type |-> q.type,
     options |-> q.options,
     timeLimit |-> IF variant = 1
                   THEN OrDefault(q.timeLimit, DefaultTimeLimit)
                   ELSE q.timeLimit]

SanitizedQuestions(qs) == [i \in 1..Len(qs) |-> Sanitize(qs[i])]

\* the userIds of a participants array: participant records in variant 1,
\* plain ids in variant 2
ParticipantIds(ps) ==
    IF variant = 1 THEN {ps[i].userId : i \in 1..Len(ps)} ELSE Range(ps)

---------------------------------------------------------------------------
(* GET /:code, GET /:code/admin, GET /list: one findOne (or find), no write *)

GetPublic(code, userId) ==
    LET q == Load(code)
    IN  /\ resp' =
             IF q.id = 0
             THEN [op |-> "getPublic", http |-> 404, error |-> "Quiz not found"]
             ELSE IF variant = 1
             THEN [op |-> "getPublic", http |-> 200,
                   code |-> q.doc.code,
                   title |-> q.doc.title,
                   category |-> q.doc.category,
                   questions |-> SanitizedQuestions(q.doc.questions),
                   status |-> q.doc.status,
                   participantCount |-> Len(q.doc.participants),
                   creatorName |-> q.doc.creatorName,
                   createdBy |-> q.doc.createdBy,
                   isCreator |-> (q.doc.createdBy = userId)]
             ELSE [op |-> "getPublic", http |-> 200,
                   code |-> q.doc.code,
                   title |-> q.doc.title,
                   category |-> q.doc.category,
                   questions |-> SanitizedQuestions(q.doc.questions),
                   status |-> q.doc.status,
                   participantCount |-> Len(q.doc.participants)]
        /\ UNCHANGED <<variant, quizzes, inflight>>

\* an admin route with no check of the caller
NeverUnauthorized(d, identity) == FALSE

\* quiz.createdBy !== identity, where identity is the body's createdBy in
\* variant 1 and its userId in variant 2
Unauthorized(d, identity) == d.createdBy # identity

GetAdmin(code, identity) ==
    LET q == Load(code)
    IN  /\ resp' =
             IF q.id = 0
             THEN [op |-> "getAdmin", http |-> 404, error |-> "Quiz not found"]
             ELSE IF Unauthorized(q.doc, identity)
             THEN [op |-> "getAdmin", http |-> 403, error |-> "Unauthorized access"]
             ELSE [op |-> "getAdmin", http |-> 200, quiz |-> q.doc]
        /\ UNCHANGED <<variant, quizzes, inflight>>

List ==
    /\ resp' = [op |-> "list", http |-> 200,
                quizzes |-> [i \in 1..Len(quizzes) |->
                    [code |-> quizzes[i].code,
                     title |-> quizzes[i].title,
                     category |-> quizzes[i].category,
                     status |-> quizzes[i].status,
                     createdBy |-> quizzes[i].createdBy,
                     participantCount |-> Len(quizzes[i].participants)]]]
    /\ UNCHANGED <<variant, quizzes, inflight>>

---------------------------------------------------------------------------
(* POST /join *)

\* $push of one element to the participants of stored document id
PushParticipant(id, p) ==
    [quizzes EXCEPT ![id].participants = Append(@, p)]

\* a save that writes the whole copy back over the stored document
SaveWholeCopy(id, copy) == [quizzes EXCEPT ![id] = copy]

\* copy.save() after copy.participants.push(x): the pushed element, the last
\* of the copy, is appended to the stored array; no other path is written
SaveParticipants(id, copy) ==
    PushParticipant(id, copy.participants[Len(copy.participants)])

\* a join response that hands the stored questions on as they are
FullJoinView(d) ==
    [title |-> d.title,
     category |-> d.category,
     questions |-> d.questions,
     participantCount |-> Len(d.participants)]

\* the quiz object of the join response, built from document d
JoinView(d) ==
    IF variant = 1
    THEN [title |-> d.title,
          category |-> d.category,
          questions |-> SanitizedQuestions(d.questions),
          participants |-> d.participants,
          participantCount |-> Len(d.participants),
          status |-> d.status,
          creatorName |-> d.creatorName,
          createdBy |-> d.createdBy,
          code |-> d.code]
    ELSE [title |-> d.title,
          category |-> d.category,
          questions |-> SanitizedQuestions(d.questions),
          participantCount |-> Len(d.participants)]

\* a join with no check of the status
NeverStarted(d) == FALSE

\* a join with no check of the membership
NeverJoined(d, userId) == FALSE

\* quiz.status !== 'pending' in variant 1, quiz.status !== 'waiting' in variant 2
AlreadyStarted(d) ==
    IF variant = 1 THEN d.status # "pending" ELSE d.status # "waiting"

\* quiz.participants.find(p => p.userId === userId) in variant 1,
\* quiz.participants.includes(userId) in variant 2
AlreadyJoined(d, userId) == userId \in ParticipantIds(d.participants)

JoinBegin(s, code, userId, username) ==
    /\ FreeSlot(s)
    /\ IF variant = 1 /\ (Falsy(code) \/ Falsy(userId) \/ Falsy(username))
       THEN /\ resp' = [op |-> "join", http |-> 400,
                        error |-> "Missing required fields"]
            /\ UNCHANGED inflight
       ELSE LET q == Load(code)
            IN  /\ inflight' = [inflight EXCEPT ![s] =
                        [op |-> "join", code |-> code, userId |-> userId,
                         username |-> username, snap |-> q]]
                /\ resp' = NoResp
    /\ UNCHANGED <<variant, quizzes>>

\* variant 1: the check on the loaded copy, then findOneAndUpdate({code},
\* {$push}) and a response built from the updated document
JoinFinish1(s) ==
    LET r == inflight[s]
        d == r.snap.doc
        target == FindOne(r.code)
        pushed == PushParticipant(target,
                      [userId |-> r.userId, username |-> r.username, score |-> 0])
    IN  /\ variant = 1
        /\ r.op = "join"
        /\ inflight' = [inflight EXCEPT ![s] = Idle]
        /\ IF r.snap.id = 0
           THEN /\ resp' = [op |-> "join", http |-> 404, error |-> "Quiz not found"]
                /\ UNCHANGED quizzes
           ELSE IF AlreadyStarted(d)
           THEN /\ resp' = [op |-> "join", http |-> 400,
                            error |-> "Quiz has already started"]
                /\ UNCHANGED quizzes
           ELSE IF ~AlreadyJoined(d, r.userId)
           THEN IF target = 0
                THEN /\ resp' = [op |-> "join", http |-> 404,
                                 error |-> "Failed to update quiz"]
                     /\ UNCHANGED quizzes
                ELSE /\ quizzes' = pushed
                     /\ resp' = [op |-> "join", http |-> 200,
                                 message |-> "Joined quiz successfully",
                                 quiz |-> JoinView(pushed[target])]
           ELSE /\ resp' = [op |-> "join", http |-> 200,
                            message |-> "Already joined quiz",
                            quiz |-> JoinView(d)]
                /\ UNCHANGED quizzes
        /\ UNCHANGED variant

\* variant 2: the check on the loaded copy, push on the copy and save (the
\* push reaches the store as an append), a response built from the copy
JoinFinish2(s) ==
    LET r == inflight[s]
        d == r.snap.doc
        isNew == ~AlreadyJoined(d, r.userId)
        copy == IF isNew
                THEN [d EXCEPT !.participants = Append(@, r.userId)]
                ELSE d
    IN  /\ variant = 2
        /\ r.op = "join"
        /\ inflight' = [inflight EXCEPT ![s] = Idle]
        /\ IF r.snap.id = 0
           THEN /\ resp' = [op |-> "join", http |-> 404, error |-> "Quiz not found"]
                /\ UNCHANGED quizzes
           ELSE IF AlreadyStarted(d)
           THEN /\ resp' = [op |-> "join", http |-> 400,
                            error |-> "Quiz has already started"]
                /\ UNCHANGED quizzes
           ELSE /\ quizzes' = IF isNew
                               THEN SaveParticipants(r.snap.id, copy)
                               ELSE quizzes
                /\ resp' = [op |-> "join", http |-> 200,
                            message |-> "Joined quiz successfully",
                            quiz |-> JoinView(copy)]
        /\ UNCHANGED variant

---------------------------------------------------------------------------
(* POST /start *)

\* a start that stores the status and no startTime
SaveStatusOnly(id) ==
    [quizzes EXCEPT ![id].status = "active"]

\* quiz.status = 'active'; quiz.startTime = new Date(); quiz.save(): the two
\* assigned paths of stored document id are set
SaveStarted(id) ==
    [quizzes EXCEPT ![id].status = "active", ![id].startTime = Now]

\* identity is the body's creatorName in variant 1 and its userId in variant 2
StartBegin(s, code, identity) ==
    /\ FreeSlot(s)
    /\ IF variant = 1 /\ (Falsy(code) \/ Falsy(identity))
       THEN /\ resp' = [op |-> "start", http |-> 400,
                        error |-> "Missing required fields"]
            /\ UNCHANGED inflight
       ELSE /\ inflight' = [inflight EXCEPT ![s] =
                    [op |-> "start", code |-> code, identity |-> identity,
                     snap |-> Load(code)]]
            /\ resp' = NoResp
    /\ UNCHANGED <<variant, quizzes>>

\* the error of start on the loaded copy d, "" when the quiz may start;
\* variant 2 has no check of the status
StartError(d, identity) ==
    IF variant = 1
    THEN IF d.creatorName # identity THEN "Only quiz creator can start the quiz"
         ELSE IF d.status = "active" THEN "Quiz is already started"
         ELSE IF Len(d.participants) < 1
         THEN "Cannot start quiz with no participants"
         ELSE ""
    ELSE IF d.createdBy # identity THEN "Only quiz creator can start the quiz"
         ELSE IF Len(d.participants) = 0
         THEN "Cannot start quiz with no participants"
         ELSE ""

StartFinish(s) ==
    LET r == inflight[s]
        d == r.snap.doc
        err == StartError(d, r.identity)
    IN  /\ r.op = "start"
        /\ inflight' = [inflight EXCEPT ![s] = Idle]
        /\ IF r.snap.id = 0
           THEN /\ resp' = [op |-> "start", http |-> 404, error |-> "Quiz not found"]
                /\ UNCHANGED quizzes
           ELSE IF err # ""
           THEN /\ resp' = [op |-> "start",
                            http |-> IF err = "Only quiz creator can start the quiz"
                                     THEN 403 ELSE 400,
                            error |-> err]
                /\ UNCHANGED quizzes
           ELSE /\ quizzes' = SaveStarted(r.snap.id)
                /\ resp' = [op |-> "start", http |-> 200,
                            message |-> "Quiz started successfully",
                            questions |-> SanitizedQuestions(d.questions)]
        /\ UNCHANGED variant

---------------------------------------------------------------------------
(* POST /submit-answer *)

\* quiz.answers.push(rec); quiz.save()
SaveAnswer(id, rec) ==
    [quizzes EXCEPT ![id].answers = Append(@, rec)]

AnswerBegin(s, code, userId, questionIndex, answer) ==
    LET q == Load(code)
    IN  /\ FreeSlot(s)
        /\ inflight' = [inflight EXCEPT ![s] =
                [op |-> "answer", code |-> code, userId |-> userId,
                 questionIndex |-> questionIndex, answer |-> answer,
                 snap |-> q]]
        /\ resp' = NoResp
        /\ UNCHANGED <<variant, quizzes>>

\* a submit-answer with no check of the status
AlwaysActive(d) == FALSE

\* a comparison that ignores the case of the letters
Lower(x) == IF x = "A" THEN "a" ELSE IF x = "B" THEN "b" ELSE x
IsCorrectAnyCase(question, answer) ==
    Lower(question.correctAnswer) = Lower(answer)

\* quiz.status !== "active"
NotActive(d) == d.status # "active"

\* quiz.questions[questionIndex] is defined: JavaScript indexes from 0
HasQuestion(d, questionIndex) ==
    questionIndex >= 0 /\ questionIndex < Len(d.questions)

QuestionAt(d, questionIndex) == d.questions[questionIndex + 1]

\* question.correctAnswer === answer
IsCorrect(question, answer) == question.correctAnswer = answer

AnswerFinish(s) ==
    LET r == inflight[s]
        d == r.snap.doc
    IN  /\ r.op = "answer"
        /\ inflight' = [inflight EXCEPT ![s] = Idle]
        /\ IF r.snap.id = 0
           THEN /\ resp' = [op |-> "answer", http |-> 404,
                            error |-> "Quiz not found"]
                /\ UNCHANGED quizzes
           ELSE IF NotActive(d)
           THEN /\ resp' = [op |-> "answer", http |-> 400,
                            error |-> "Quiz is not active"]
                /\ UNCHANGED quizzes
           ELSE IF ~HasQuestion(d, r.questionIndex)
           THEN /\ resp' = [op |-> "answer", http |-> 400,
                            error |-> "Invalid question index"]
                /\ UNCHANGED quizzes
           ELSE LET question == QuestionAt(d, r.questionIndex)
                    isCorrect == IsCorrect(question, r.answer)
                IN  /\ quizzes' = SaveAnswer(r.snap.id,
                            [userId |-> r.userId,
                             questionIndex |-> r.questionIndex,
                             answer |-> r.answer,
                             isCorrect |-> isCorrect,
                             timestamp |-> Now])
                    /\ resp' = [op |-> "answer", http |-> 200,
                                correct |-> isCorrect,
                                correctAnswer |-> question.correctAnswer]
        /\ UNCHANGED variant

---------------------------------------------------------------------------
(* POST /submit *)

\* a save that writes the scores of a copy loaded while none were stored:
\* the stored array becomes the one record
OverwriteScores(id, rec) ==
    [quizzes EXCEPT ![id].scores = <<rec>>]

\* quiz.scores.push(rec); quiz.save()
SaveScore(id, rec) ==
    [quizzes EXCEPT ![id].scores = Append(@, rec)]

\* a count that takes in the entries of the same score
CountGreaterOrEqual(scores, score) ==
    Cardinality({i \in 1..Len(scores) : scores[i].score >= score})

\* scores.filter(s => s.score > score).length
CountGreater(scores, score) ==
    Cardinality({i \in 1..Len(scores) : scores[i].score > score})

ScoreBegin(s, code, userId, score) ==
    /\ FreeSlot(s)
    /\ inflight' = [inflight EXCEPT ![s] =
            [op |-> "score", code |-> code, userId |-> userId,
             score |-> score, snap |-> Load(code)]]
    /\ resp' = NoResp
    /\ UNCHANGED <<variant, quizzes>>

\* currentRank is computed on the handler's copy, after its own push
ScoreFinish(s) ==
    LET r == inflight[s]
        d == r.snap.doc
        rec == [userId |-> r.userId, score |-> r.score, submittedAt |-> Now]
        copy == Append(d.scores, rec)
    IN  /\ r.op = "score"
        /\ inflight' = [inflight EXCEPT ![s] = Idle]
        /\ IF r.snap.id = 0
           THEN /\ resp' = [op |-> "score", http |-> 404,
                            error |-> "Quiz not found"]
                /\ UNCHANGED quizzes
           ELSE /\ quizzes' = SaveScore(r.snap.id, rec)
                /\ resp' = [op |-> "score", http |-> 200,
                            currentRank |-> CountGreater(copy, r.score) + 1]
        /\ UNCHANGED variant

---------------------------------------------------------------------------
(* GET /leaderboard/:code *)

\* the sort with its comparator reversed, (a, b) => a.score - b.score
RECURSIVE InsertAsc(_, _)
InsertAsc(e, sorted) ==
    IF sorted = <<>> THEN <<e>>
    ELSE IF Head(sorted).score <= e.score
    THEN <<Head(sorted)>> \o InsertAsc(e, Tail(sorted))
    ELSE <<e>> \o sorted

\* Array.prototype.sort((a, b) => b.score - a.score): descending by score,
\* entries of equal score in their order in the array
RECURSIVE InsertDesc(_, _)
InsertDesc(e, sorted) ==
    IF sorted = <<>> THEN <<e>>
    ELSE IF Head(sorted).score >= e.score
    THEN <<Head(sorted)>> \o InsertDesc(e, Tail(sorted))
    ELSE <<e>> \o sorted

RECURSIVE SortDesc(_)
SortDesc(scores) ==
    IF scores = <<>> THEN <<>>
    ELSE InsertDesc(scores[Len(scores)],
                    SortDesc(SubSeq(scores, 1, Len(scores) - 1)))

\* .map((score, index) => ({...score.toObject(), rank: index + 1}))
Ranked(sorted) ==
    [i \in 1..Len(sorted) |->
        [userId |-> sorted[i].userId, score |-> sorted[i].score,
         submittedAt |-> sorted[i].submittedAt, rank |-> i]]

\* a leaderboard that saves the copy it sorted
LeaderboardSaved(code) ==
    LET q == Load(code)
    IN  /\ resp' =
             IF q.id = 0
             THEN [op |-> "leaderboard", http |-> 404, error |-> "Quiz not found"]
             ELSE [op |-> "leaderboard", http |-> 200,
                   board |-> Ranked(SortDesc(q.doc.scores))]
        /\ quizzes' =
             IF q.id = 0 THEN quizzes
             ELSE [quizzes EXCEPT ![q.id].scores = SortDesc(q.doc.scores)]
        /\ UNCHANGED <<variant, inflight>>

\* the sort is on the loaded copy, which is not saved
Leaderboard(code) ==
    LET q == Load(code)
    IN  /\ resp' =
             IF q.id = 0
             THEN [op |-> "leaderboard", http |-> 404, error |-> "Quiz not found"]
             ELSE [op |-> "leaderboard", http |-> 200,
                   board |-> Ranked(SortDesc(q.doc.scores))]
        /\ UNCHANGED <<variant, quizzes, inflight>>

---------------------------------------------------------------------------
(* Specifications *)

\* The model admits a request that may add an element to an array only while
\* the array, with the requests already under way, is below its bound.
RoomToJoin(code, userId) ==
    LET q == Load(code)
    IN  q.id # 0 =>
          \/ AlreadyJoined(q.doc, userId)
          \/ Len(q.doc.participants) + Pending("join", q.id) < MaxParticipants

RoomToAnswer(code) ==
    LET q == Load(code)
    IN  q.id # 0 => Len(q.doc.answers) + Pending("answer", q.id) < MaxAnswers

RoomToScore(code, max) ==
    LET q == Load(code)
    IN  q.id # 0 => Len(q.doc.scores) + Pending("score", q.id) < max

\* a create is admitted while the collection is below its bound
RoomToCreate(max) == Len(quizzes) < max

OneQuestion == [present |-> TRUE, items |-> <<QMultiple>>]

\* Requests of two callers at a time, every write of the lifecycle among them.
Next ==
    \/ /\ RoomToCreate(MaxQuizzes)
       /\ Create(TheCode, "T", "C", OneQuestion, Creator, Creator, CreatorName)
    \/ \E s \in Slots, userId \in Users :
            RoomToJoin(TheCode, userId) /\ JoinBegin(s, TheCode, userId, "Bob")
    \/ \E s \in Slots : JoinFinish1(s)
    \/ \E s \in Slots : JoinFinish2(s)
    \/ \E s \in Slots, identity \in {Creator, CreatorName} :
            StartBegin(s, TheCode, identity)
    \/ \E s \in Slots : StartFinish(s)
    \/ \E s \in Slots :
            RoomToAnswer(TheCode) /\ AnswerBegin(s, TheCode, "u2", 0, "A")
    \/ \E s \in Slots : AnswerFinish(s)
    \/ \E s \in Slots :
            RoomToScore(TheCode, MaxScores) /\ ScoreBegin(s, TheCode, "u2", 90)
    \/ \E s \in Slots : ScoreFinish(s)

Spec == Init /\ [][Next]_vars

\* One request at a time, every route and the inputs its checks tell apart.
Identities == {Creator, "u2", CreatorName, Undefined}
SeqQuestionInputs ==
    {q \in QuestionInputs : q.items \in {<<>>, <<QMultiple>>, <<QMultiple, QText>>}}
NoRequest == \A s \in Slots : inflight[s].op = "idle"

NextSeq ==
    \/ \E title \in {"", "T"}, questions \in SeqQuestionInputs,
          creatorName \in {"", CreatorName} :
            /\ NoRequest
            /\ RoomToCreate(MaxQuizzes)
            /\ Create(TheCode, title, "C", questions, Creator, Creator,
                      creatorName)
    \/ \E code \in RequestCodes, userId \in Users :
            NoRequest /\ GetPublic(code, userId)
    \/ \E code \in RequestCodes, identity \in Identities :
            NoRequest /\ GetAdmin(code, identity)
    \/ NoRequest /\ List
    \/ \E code \in RequestCodes, userId \in Users, username \in Usernames :
            RoomToJoin(code, userId) /\ JoinBegin(1, code, userId, username)
    \/ JoinFinish1(1)
    \/ JoinFinish2(1)
    \/ \E code \in RequestCodes, identity \in Identities :
            StartBegin(1, code, identity)
    \/ StartFinish(1)
    \/ \E code \in RequestCodes, userId \in Users, questionIndex \in -1..2,
          answer \in Answers :
            RoomToAnswer(code) /\ AnswerBegin(1, code, userId, questionIndex, answer)
    \/ AnswerFinish(1)

SpecSeq == Init /\ [][NextSeq]_vars

\* The scores of one quiz, one request at a time: the store after one create.
InitScore ==
    /\ variant \in {1, 2}
    /\ quizzes = <<NewQuiz(TheCode, "T", "C", OneQuestion.items, Creator,
                            IF variant = 1 THEN CreatorName ELSE Undefined)>>
    /\ inflight = [s \in Slots |-> Idle]
    /\ resp = NoResp

NextScore ==
    \/ \E userId \in BoardUsers, score \in BoardScores :
            RoomToScore(TheCode, MaxBoard) /\ ScoreBegin(1, TheCode, userId, score)
    \/ ScoreBegin(1, UnknownCode, "u1", 50)
    \/ ScoreFinish(1)
    \/ \E code \in RequestCodes : NoRequest /\ Leaderboard(code)

SpecScore == InitScore /\ [][NextScore]_vars

\* Every route, one request at a time, over a quiz of two questions: each
\* response a route can give, the refusals among them.
TwoQuestions == [present |-> TRUE, items |-> <<QMultiple, QText>>]

NextAll ==
    \/ \E title \in {"", "T"} :
            /\ NoRequest
            /\ RoomToCreate(MaxQuizzes)
            /\ Create(TheCode, title, "C", TwoQuestions, Creator, Creator,
                      CreatorName)
    \/ \E code \in RequestCodes : NoRequest /\ GetPublic(code, "u2")
    \/ \E code \in RequestCodes, identity \in {Creator, "u2"} :
            NoRequest /\ GetAdmin(code, identity)
    \/ NoRequest /\ List
    \/ \E code \in RequestCodes, username \in Usernames :
            RoomToJoin(code, "u2") /\ JoinBegin(1, code, "u2", username)
    \/ JoinFinish1(1)
    \/ JoinFinish2(1)
    \/ \E code \in RequestCodes, identity \in {Creator, CreatorName, "u2"} :
            StartBegin(1, code, identity)
    \/ StartFinish(1)
    \/ \E code \in RequestCodes, questionIndex \in 0..2 :
            RoomToAnswer(code) /\ AnswerBegin(1, code, "u2", questionIndex, "a")
    \/ AnswerFinish(1)
    \/ \E code \in RequestCodes, score \in {50, 90} :
            RoomToScore(code, MaxSubmits) /\ ScoreBegin(1, code, "u2", score)
    \/ ScoreFinish(1)
    \/ \E code \in RequestCodes : NoRequest /\ Leaderboard(code)

SpecAll == Init /\ [][NextAll]_vars

\* Creates alone, with every body the validation tells apart and the codes
\* the generator may hand out.
NextCreate ==
    \/ \E code \in GeneratedCodes, title \in {"", "T"},
          questions \in QuestionInputs, who \in {Undefined, Creator},
          creatorName \in {"", CreatorName} :
            /\ RoomToCreate(MaxCreated)
            /\ Create(code, title, "C", questions, who, who, creatorName)
    \/ List

SpecCreate == Init /\ [][NextCreate]_vars

\* Score and answer submissions of two callers at a time to one started
\* quiz: the store after a create, a join and a start.
InitRace ==
    /\ variant \in {1, 2}
    /\ quizzes = <<[NewQuiz(TheCode, "T", "C", TwoQuestions.items, Creator,
                            IF variant = 1 THEN CreatorName ELSE Undefined)
                    EXCEPT !.participants =
                                IF variant = 1
                                THEN <<[userId |-> "u2", username |-> "Bob",
                                        score |-> 0]>>
                                ELSE <<"u2">>,
                           !.status = "active",
                           !.startTime = Now]>>
    /\ inflight = [s \in Slots |-> Idle]
    /\ resp = NoResp

NextRace ==
    \/ \E s \in Slots, userId \in Users :
            /\ RoomToScore(TheCode, MaxSubmits)
            /\ ScoreBegin(s, TheCode, userId, IF userId = "u1" THEN 90 ELSE 50)
    \/ \E s \in Slots : ScoreFinish(s)
    \/ \E s \in Slots, userId \in Users :
            /\ Len(quizzes[1].answers) + Pending("answer", 1) < MaxSubmits
            /\ AnswerBegin(s, TheCode, userId, 1, "A")
    \/ \E s \in Slots : AnswerFinish(s)

SpecRace == InitRace /\ [][NextRace]_vars

---------------------------------------------------------------------------
(* Properties *)

\* the request in slot s, of kind op, ends in this step
Finishing(s, op) == inflight[s].op = op /\ inflight'[s].op = "idle"

\* C1: under every interleaving of create, join, start, submit-answer and
\* submit requests, a stored quiz that is 'active' stays 'active', and a
\* stored status changes only by a start request setting it to 'active'.
StatusOnlyForward ==
    [][\A i \in 1..Len(quizzes) :
          /\ quizzes[i].status = "active" => quizzes'[i].status = "active"
          /\ quizzes'[i].status # quizzes[i].status =>
                /\ quizzes'[i].status = "active"
                /\ \E s \in Slots : Finishing(s, "start")]_vars

\* a join that read the quiz before it started has answered after the start
\* was stored, and the quiz is still active
LateJoinLeftQuizActive ==
    /\ Len(quizzes) = 1
    /\ quizzes[1].status = "active"
    /\ quizzes[1].startTime = Now
    /\ resp.op = "join"
    /\ resp.http = 200

\* the stored document a request in slot s is for, 0 when there is none
Target(s) == FindOne(inflight[s].code)

\* the caller of the start request in slot s is the creator of document d
ByCreator(s, d) ==
    IF variant = 1
    THEN d.creatorName = inflight[s].identity
    ELSE d.createdBy = inflight[s].identity

\* C2: a start by the creator fails with 400 and leaves the status as it was
\* when the quiz has no participants; it succeeds and sets the status to
\* 'active' when the quiz has participants and is not active; and a start of
\* a quiz that is already active fails with 400 and changes nothing.
StartContract ==
    [][(Finishing(1, "start") /\ Target(1) # 0
            /\ ByCreator(1, quizzes[Target(1)])) =>
          LET q == quizzes[Target(1)]
              q2 == quizzes'[Target(1)]
          IN  /\ Len(q.participants) = 0 =>
                    resp'.http = 400 /\ q2.status = q.status
              /\ (Len(q.participants) > 0 /\ q.status # "active") =>
                    resp'.http = 200 /\ q2.status = "active"
              /\ q.status = "active" =>
                    resp'.http = 400 /\ UNCHANGED quizzes]_vars

\* C3: a join of a quiz whose stored status is not the initial one fails with
\* 400 "Quiz has already started", whoever joins, and the store is unchanged.
JoinRejectedAfterStart ==
    [][(Finishing(1, "join") /\ Target(1) # 0
            /\ quizzes[Target(1)].status # InitialStatus) =>
          /\ resp' = [op |-> "join", http |-> 400,
                      error |-> "Quiz has already started"]
          /\ UNCHANGED quizzes]_vars

\* a join of the started quiz was refused
JoinOfActiveQuizRefused ==
    /\ Len(quizzes) >= 1
    /\ quizzes[1].status = "active"
    /\ resp.op = "join"
    /\ resp.http = 400
    /\ resp.error = "Quiz has already started"

\* C4: a join by a userId that is already a participant of a quiz still in its
\* initial status succeeds, returns the view of the stored quiz, and leaves
\* the store, so the participants and their count, unchanged.
JoinIdempotent ==
    [][(Finishing(1, "join") /\ Target(1) # 0
            /\ quizzes[Target(1)].status = InitialStatus
            /\ inflight[1].userId \in
                    ParticipantIds(quizzes[Target(1)].participants)) =>
          /\ resp'.http = 200
          /\ resp'.quiz = JoinView(quizzes[Target(1)])
          /\ resp'.quiz.participantCount = Len(quizzes[Target(1)].participants)
          /\ UNCHANGED quizzes]_vars

\* variant 1 answered a participant's second join, with one participant stored
SecondJoinAnswered ==
    /\ Len(quizzes) >= 1
    /\ Len(quizzes[1].participants) = 1
    /\ resp.op = "join"
    /\ resp.http = 200
    /\ resp.message = "Already joined quiz"
    /\ resp.quiz.participantCount = 1

\* C5: a submit-answer for a quiz whose stored status is not 'active' fails
\* with 400 "Quiz is not active", whatever the userId, questionIndex and
\* answer, and the store is unchanged.
AnswerRejectedUnlessActive ==
    [][(Finishing(1, "answer") /\ Target(1) # 0
            /\ quizzes[Target(1)].status # "active") =>
          /\ resp' = [op |-> "answer", http |-> 400,
                      error |-> "Quiz is not active"]
          /\ UNCHANGED quizzes]_vars

\* an answer to a quiz that has participants but has not started was refused
AnswerBeforeStartRefused ==
    /\ Len(quizzes) >= 1
    /\ quizzes[1].status # "active"
    /\ Len(quizzes[1].participants) > 0
    /\ quizzes[1].answers = <<>>
    /\ resp.op = "answer"
    /\ resp.http = 400
    /\ resp.error = "Quiz is not active"

\* C6: on an active quiz, a submit-answer with a questionIndex outside
\* 0..N-1 fails with 400 and stores nothing; with a questionIndex inside it
\* succeeds, 'correct' and the stored isCorrect are true exactly when the
\* answer equals the question's correctAnswer, and the correctAnswer returned
\* is that question's.
AnswerGraded ==
    [][(Finishing(1, "answer") /\ Target(1) # 0
            /\ quizzes[Target(1)].status = "active") =>
          LET r == inflight[1]
              q == quizzes[Target(1)]
              n == Len(q.questions)
          IN  IF r.questionIndex < 0 \/ r.questionIndex >= n
              THEN /\ resp'.http = 400
                   /\ resp'.error = "Invalid question index"
                   /\ UNCHANGED quizzes
              ELSE LET expected == q.questions[r.questionIndex + 1].correctAnswer
                       stored == quizzes'[Target(1)].answers
                   IN  /\ resp'.http = 200
                       /\ resp'.correct = (r.answer = expected)
                       /\ resp'.correctAnswer = expected
                       /\ Len(stored) = Len(q.answers) + 1
                       /\ SubSeq(stored, 1, Len(q.answers)) = q.answers
                       /\ stored[Len(stored)].userId = r.userId
                       /\ stored[Len(stored)].questionIndex = r.questionIndex
                       /\ stored[Len(stored)].answer = r.answer
                       /\ stored[Len(stored)].isCorrect = (r.answer = expected)]_vars

\* the answer "a" to a question whose correctAnswer is "A" was graded wrong
WrongCaseGradedIncorrect ==
    /\ Len(quizzes) >= 1
    /\ quizzes[1].answers # <<>>
    /\ quizzes[1].answers[Len(quizzes[1].answers)].answer = "a"
    /\ quizzes[1].answers[Len(quizzes[1].answers)].isCorrect = FALSE
    /\ resp.op = "answer"
    /\ resp.http = 200
    /\ resp.correct = FALSE
    /\ resp.correctAnswer = "A"

\* the scores of a sequence of score entries, in order
ScoresOf(entries) == [i \in 1..Len(entries) |-> entries[i].score]

\* the entries of a sequence with the given userId and score
Occurrences(entries, userId, score) ==
    Cardinality({i \in 1..Len(entries) :
                    entries[i].userId = userId /\ entries[i].score = score})

\* C7: the leaderboard of a quiz holds exactly the stored score entries, one
\* per entry and a userId as often as it is stored, in descending order of
\* score, each with rank = its position + 1; after the scores 50, 90, 70 the
\* ranks of these entries are 3, 1, 2.
LeaderboardRanked ==
    [][\A code \in RequestCodes :
          (resp'.op = "leaderboard" /\ Leaderboard(code) /\ FindOne(code) # 0) =>
            LET stored == quizzes[FindOne(code)].scores
                board == resp'.board
            IN  /\ resp'.http = 200
                /\ Len(board) = Len(stored)
                /\ \A u \in BoardUsers, v \in BoardScores :
                      Occurrences(board, u, v) = Occurrences(stored, u, v)
                /\ \A i \in 1..Len(board) : board[i].rank = i
                /\ \A i, j \in 1..Len(board) :
                      i < j => board[i].score >= board[j].score
                /\ ScoresOf(stored) = <<50, 90, 70>> =>
                      /\ ScoresOf(board) = <<90, 70, 50>>
                      /\ \A i \in 1..3 :
                            board[<<3, 1, 2>>[i]].userId = stored[i].userId]_vars

\* the leaderboard of the scores 50, 90, 70 of three users was returned
BoardOfThreeUsers ==
    /\ ScoresOf(quizzes[1].scores) = <<50, 90, 70>>
    /\ Cardinality({quizzes[1].scores[i].userId : i \in 1..3}) = 3
    /\ resp.op = "leaderboard"
    /\ resp.http = 200
    /\ ScoresOf(resp.board) = <<90, 70, 50>>
    /\ resp.board[1].rank = 1

\* C8: a submit to a stored quiz returns currentRank = 1 + the number of
\* entries stored before it whose score is strictly greater than the
\* submitted one: 2 for a score of 80 after 90 and 70.  Entries of the same
\* score, the appended one among them, do not count.
RankCountsGreaterScores ==
    [][(Finishing(1, "score") /\ Target(1) # 0) =>
          LET stored == quizzes[Target(1)].scores
              score == inflight[1].score
          IN  /\ resp'.http = 200
              /\ resp'.currentRank =
                    1 + Cardinality({i \in 1..Len(stored) :
                                        stored[i].score > score})
              /\ (ScoresOf(stored) = <<90, 70>> /\ score = 80) =>
                    resp'.currentRank = 2
              /\ quizzes'[Target(1)].scores =
                    Append(stored, [userId |-> inflight[1].userId,
                                    score |-> score, submittedAt |-> Now])]_vars

\* a score of 80 was submitted after 90 and 70 and ranked second
EightyRankedSecond ==
    /\ ScoresOf(quizzes[1].scores) = <<90, 70, 80>>
    /\ resp.op = "score"
    /\ resp.http = 200
    /\ resp.currentRank = 2

\* C9 as stated: the admin route answers 403 whenever the identity supplied
\* is not the stored creator identity of a quiz with that code, whether or
\* not such a quiz exists, and the full quiz only when it is.
AdminForbiddenEvenIfAbsent ==
    [][\A code \in RequestCodes, identity \in Identities :
          (resp'.op = "getAdmin" /\ GetAdmin(code, identity)) =>
            IF FindOne(code) # 0 /\ quizzes[FindOne(code)].createdBy = identity
            THEN resp'.http = 200 /\ resp'.quiz = quizzes[FindOne(code)]
            ELSE resp'.http = 403]_vars

\* C9, amended: for a code no quiz has, the admin route answers 404; for a
\* stored quiz it answers 403 whenever the identity supplied is not the
\* stored createdBy, and the full quiz, correctAnswers included, only when
\* it is.
AdminForbiddenOnMismatch ==
    [][\A code \in RequestCodes, identity \in Identities :
          (resp'.op = "getAdmin" /\ GetAdmin(code, identity)) =>
            IF FindOne(code) = 0
            THEN resp'.http = 404
            ELSE IF quizzes[FindOne(code)].createdBy # identity
            THEN resp'.http = 403 /\ "quiz" \notin DOMAIN resp'
            ELSE /\ resp'.http = 200
                 /\ resp'.quiz = quizzes[FindOne(code)]
                 /\ \A i \in 1..Len(resp'.quiz.questions) :
                       "correctAnswer" \in DOMAIN resp'.quiz.questions[i]]_vars

\* the admin route refused a caller of a stored quiz
AdminRefused ==
    /\ Len(quizzes) >= 1
    /\ resp.op = "getAdmin"
    /\ resp.http = 403

\* the question lists a response carries outside the admin route
PublicQuestionLists ==
    IF resp.op \in {"getPublic", "start"} /\ resp.http = 200
    THEN {resp.questions}
    ELSE IF resp.op = "join" /\ resp.http = 200
    THEN {resp.quiz.questions}
    ELSE {}

\* C10: the question list of a getPublic, join or start response has one
\* entry per stored question, in the stored order, and no entry has a
\* correctAnswer field, whatever the state of the quiz.
PublicViewsSanitized ==
    \A view \in PublicQuestionLists :
        LET stored == quizzes[FindOne(TheCode)].questions
        IN  /\ Len(view) = Len(stored)
            /\ \A i \in 1..Len(view) :
                  /\ "correctAnswer" \notin DOMAIN view[i]
                  /\ view[i].text = stored[i].text
                  /\ view[i].type = stored[i].type
                  /\ view[i].options = stored[i].options

\* a start returned the two questions of a quiz
StartReturnedTwoQuestions ==
    /\ resp.op = "start"
    /\ resp.http = 200
    /\ Len(resp.questions) = 2
    /\ Len(quizzes[1].questions) = 2
    /\ quizzes[1].status = "active"

\* the question objects a response carries, at the top or inside its quiz
QuestionsCarried(r) ==
    (IF "questions" \in DOMAIN r THEN Range(r.questions) ELSE {})
        \cup (IF "quiz" \in DOMAIN r THEN Range(r.quiz.questions) ELSE {})

\* C11: in any sequence of requests, a response has a correctAnswer of its
\* own only when it answers a successful submit-answer, and then it is the
\* correctAnswer of the question that request named, whose answer record the
\* request stored under the caller's userId; a response carries questions
\* with a correctAnswer only when it answers an admin request, and every
\* admin request it can be the answer to gave the stored createdBy as its
\* identity; the entries of the list and of the leaderboard carry no
\* questions and no correctAnswer.
CorrectAnswerOnlyToSubmitter ==
    [][/\ "correctAnswer" \in DOMAIN resp' =>
            /\ Finishing(1, "answer")
            /\ resp'.http = 200
            /\ Target(1) # 0
            /\ inflight[1].questionIndex \in
                    0..(Len(quizzes[Target(1)].questions) - 1)
            /\ resp'.correctAnswer =
                    quizzes[Target(1)].questions[
                        inflight[1].questionIndex + 1].correctAnswer
            /\ LET stored == quizzes'[Target(1)].answers
               IN  /\ Len(stored) = Len(quizzes[Target(1)].answers) + 1
                   /\ stored[Len(stored)].userId = inflight[1].userId
                   /\ stored[Len(stored)].questionIndex =
                            inflight[1].questionIndex
       /\ (\E q \in QuestionsCarried(resp') : "correctAnswer" \in DOMAIN q) =>
            /\ resp'.op = "getAdmin"
            /\ \A code \in RequestCodes, identity \in Identities :
                    GetAdmin(code, identity) =>
                        /\ FindOne(code) # 0
                        /\ identity = quizzes[FindOne(code)].createdBy
       /\ "quizzes" \in DOMAIN resp' =>
            \A i \in 1..Len(resp'.quizzes) :
                DOMAIN resp'.quizzes[i] \cap
                    {"questions", "answers", "correctAnswer"} = {}
       /\ "board" \in DOMAIN resp' =>
            \A i \in 1..Len(resp'.board) :
                DOMAIN resp'.board[i] \cap
                    {"questions", "answers", "correctAnswer"} = {}]_vars

\* a caller who is not the creator submitted an answer to the second question
\* and was told its correctAnswer
SubmitterToldCorrectAnswer ==
    /\ Len(quizzes) >= 1
    /\ quizzes[1].createdBy # "u2"
    /\ quizzes[1].answers # <<>>
    /\ quizzes[1].answers[Len(quizzes[1].answers)].userId = "u2"
    /\ quizzes[1].answers[Len(quizzes[1].answers)].questionIndex = 1
    /\ resp.op = "answer"
    /\ resp.http = 200
    /\ resp.correctAnswer = quizzes[1].questions[2].correctAnswer

\* C12: after any sequence of create requests no two stored quizzes have the
\* same code, and the code of a stored quiz is the one create gave it.
CodesUniqueAndFixed ==
    [][/\ \A i, j \in 1..Len(quizzes') :
            i # j => quizzes'[i].code # quizzes'[j].code
       /\ Len(quizzes') >= Len(quizzes)
       /\ \A i \in 1..Len(quizzes) : quizzes'[i].code = quizzes[i].code]_vars

\* C13: every stored quiz has at least one question, and the questions of a
\* stored quiz (their number, order, text, type, options and correctAnswer)
\* are the same after every create, join, start and submit-answer.
QuestionsNonEmptyAndFixed ==
    [][/\ \A i \in 1..Len(quizzes') : Len(quizzes'[i].questions) > 0
       /\ \A i \in 1..Len(quizzes) :
            quizzes'[i].questions = quizzes[i].questions]_vars

\* a question that lacks text, type or correctAnswer, or is of type
\* 'multiple' with fewer than two options
BadQuestion(q) ==
    \/ Falsy(q.text) \/ Falsy(q.type) \/ Falsy(q.correctAnswer)
    \/ q.type = "multiple" /\ (~q.hasOptions \/ Len(q.options) < 2)

\* a create body with a required field missing or empty; the creator's
\* identity is createdBy and creatorName in variant 1, userId in variant 2
RequiredMissing(title, category, questions, who, creatorName) ==
    \/ Falsy(title) \/ Falsy(category)
    \/ ~questions.present \/ Len(questions.items) = 0
    \/ Falsy(who)
    \/ variant = 1 /\ Falsy(creatorName)

\* C14: create answers 400 and stores nothing when a required field is
\* missing or empty, or a question lacks text, type or correctAnswer, or a
\* 'multiple' question has fewer than two options; otherwise it stores one
\* quiz, in the initial status and with no participants.
CreateValidates ==
    [][\A code \in GeneratedCodes, title \in {"", "T"},
          questions \in QuestionInputs, who \in {Undefined, Creator},
          creatorName \in {"", CreatorName} :
          (resp'.op = "create"
                /\ Create(code, title, "C", questions, who, who, creatorName)) =>
            IF \/ RequiredMissing(title, "C", questions, who, creatorName)
               \/ \E q \in Range(questions.items) : BadQuestion(q)
            THEN resp'.http = 400 /\ UNCHANGED quizzes
            ELSE /\ resp'.http = 201
                 /\ Len(quizzes') = Len(quizzes) + 1
                 /\ SubSeq(quizzes', 1, Len(quizzes)) = quizzes
                 /\ quizzes'[Len(quizzes')].status = InitialStatus
                 /\ quizzes'[Len(quizzes')].participants = <<>>]_vars

\* sequence old is the beginning of sequence new
IsPrefix(old, new) ==
    Len(old) <= Len(new) /\ SubSeq(new, 1, Len(old)) = old

NoDuplicateParticipants ==
    \A i \in 1..Len(quizzes) :
        Cardinality(ParticipantIds(quizzes[i].participants)) =
            Len(quizzes[i].participants)

\* C17: under every interleaving of join and start requests, the stored
\* participants of a quiz whose stored status is 'active' are the same after
\* every step.
ParticipantsFrozenOnceActive ==
    [][\A i \in 1..Len(quizzes) :
          quizzes[i].status = "active" =>
              quizzes'[i].participants = quizzes[i].participants]_vars

StartSucceedsOnce ==
    [][\A s \in Slots :
          (Finishing(s, "start") /\ resp'.http = 200) =>
              /\ quizzes[inflight[s].snap.id].status = InitialStatus
              /\ quizzes[inflight[s].snap.id].startTime = NoTime]_vars

\* the routes that only read
ReadOnlyRoutes == {"getPublic", "getAdmin", "list", "leaderboard"}

\* C20: a step that answers with a 4xx status, whatever the refusal, and a
\* step that answers a getPublic, getAdmin, list or leaderboard request,
\* leaves every stored quiz as it was; so does a step that only reads the
\* quiz for a request still under way.
RefusalsAndReadsWriteNothing ==
    [][(\/ resp'.http >= 400
        \/ resp'.op \in ReadOnlyRoutes
        \/ resp' = NoResp) => UNCHANGED quizzes]_vars

\* the leaderboard was returned in descending order while the stored scores
\* are still in the order of their submission
BoardSortedStoreUnsorted ==
    /\ Len(quizzes) >= 1
    /\ ScoresOf(quizzes[1].scores) = <<50, 90>>
    /\ resp.op = "leaderboard"
    /\ resp.http = 200
    /\ ScoresOf(resp.board) = <<90, 50>>

====
